---- MODULE Spec2Model ----
(***************************************************************************)
(* Model of redisdriver.go: the lease-based membership driver of dcron.     *)
(*                                                                         *)
(* A driver registers its node identity in a shared Redis keyspace with    *)
(* SETEX, renews the lease from a background goroutine (heartBeat) every   *)
(* timeout/2, deletes it when its runtime context is cancelled, and lists  *)
(* the live peers with SCAN.                                               *)
(*                                                                         *)
(* Time is discrete.  One unit is one second, the resolution of SETEX's    *)
(* expiry.  A store round trip, a lock hand-over and the wake-up of a      *)
(* goroutine whose select has a ready case take no time: the clock         *)
(* advances (Tick) only when no call is in progress and no heartbeat loop  *)
(* has something to do.  Within one instant every interleaving of the      *)
(* callers and of the heartbeat goroutines is allowed.                     *)
(*                                                                         *)
(* Strings are sequences of characters, so that key derivation and the     *)
(* SCAN pattern are computed and matched, not assumed.                     *)
(***************************************************************************)
EXTENDS Integers, Sequences, FiniteSets, TLC

VARIABLES
    serviceName,  \* rd.serviceName, per driver
    nodeID,       \* rd.nodeID, per driver
    timeout,      \* rd.timeout, per driver
    started,      \* rd.started, per driver
    runtimeCtx,   \* rd.runtimeCtx / rd.runtimeCancel: 0 is nil, n the context of the n-th cycle
    cancelled,    \* per driver, the contexts whose Done channel is closed
    mutex,        \* the embedded sync.Mutex: its holder, or None
    pc,           \* per calling goroutine, where it is in its call
    result,       \* per calling goroutine, what its last call returned
    iter,         \* per calling goroutine, the ScanIterator and ret of scan
    loops,        \* per driver and cycle, the heartBeat goroutine launched by that cycle
    store,        \* the Redis keyspace: live key -> [val, ttl]
    logged,       \* per driver, the kinds of error handed to rd.logger.Errorf
    sinceWrite,   \* per driver, time since the last SETEX of its key took effect
    renewFails,   \* per driver, consecutive failed renewals of the heartbeat (capped at 2)
    sinceStop     \* per driver, time since a Stop took it from started to stopped (capped at timeout)

vars == <<serviceName, nodeID, timeout, started, runtimeCtx, cancelled, mutex, pc,
          result, iter, loops, store, logged, sinceWrite, renewFails, sinceStop>>

----------------------------------------------------------------------------
(* Bounds *)

\* Start cycles (runtime contexts created) per driver under Spec.
MaxCycle == 2

\* Largest configured lease timeout, in time units.
MaxTimeout == 3

----------------------------------------------------------------------------
(* Configuration *)

None == "none"

Drivers == {"d1", "d2"}

\* The calling goroutines: a and b call into driver d1, q into driver d2.
Threads == {"a", "b", "q"}

Owner(t) == IF t = "q" THEN "d2" ELSE "d1"

\* The order in which SCAN's cursor walks the keyspace.
KeyOrder == <<"d1", "d2">>

\* The timeouts a Timeout option configures.  The ticker interval timeout/2
\* must be positive (time.NewTicker panics otherwise), so 2 is the smallest.
Timeouts == 2..MaxTimeout

Cycles == 1..MaxCycle

\* commons.GetKeyPre: the global prefix, the service name and a colon.
GlobalKeyPrefix == <<"dcron", ":">>

GetKeyPre(svc) == GlobalKeyPrefix \o svc \o <<":">>

\* commons.GetNodeId: the key prefix followed by a fresh uuid.
GetNodeId(svc, uuid) == GetKeyPre(svc) \o <<uuid>>

\* The MATCH pattern of GetNodes.
MatchStr(svc) == GetKeyPre(svc) \o <<"*">>

\* Redis glob matching of a key against a MATCH pattern (* and ?).
RECURSIVE GlobMatch(_, _)
GlobMatch(p, s) ==
    IF p = <<>> THEN s = <<>>
    ELSE IF Head(p) = "*"
         THEN GlobMatch(Tail(p), s) \/ (s # <<>> /\ GlobMatch(p, Tail(s)))
    ELSE IF s = <<>> THEN FALSE
    ELSE (Head(p) = "?" \/ Head(p) = Head(s)) /\ GlobMatch(Tail(p), Tail(s))

----------------------------------------------------------------------------
(* The store *)

\* SETEX key ttl val
SetEx(st, k, v, ttl) ==
    [x \in (DOMAIN st) \cup {k} |-> IF x = k THEN [val |-> v, ttl |-> ttl] ELSE st[x]]

\* DEL key [key ...]
Del(st, ks) == [x \in (DOMAIN st) \ ks |-> st[x]]

\* One time unit passes in the store: a key whose ttl runs out is gone.
Expire(st) ==
    [x \in {y \in DOMAIN st : st[y].ttl > 1} |-> [st[x] EXCEPT !.ttl = @ - 1]]

Present(d) == nodeID[d] \in DOMAIN store

----------------------------------------------------------------------------
(* The heartbeat goroutines *)

NoLoop == [st |-> "none", wait |-> 0, timer |-> 0, tick |-> FALSE]

DeadLoop == [st |-> "dead", wait |-> 0, timer |-> 0, tick |-> FALSE]

\* time.NewTicker(rd.timeout / 2)
Interval(d) == timeout[d] \div 2

\* go rd.heartBeat(): the goroutine of cycle c, its ticker armed, about to
\* evaluate its select for the first time.
Launched(d, c) == [st |-> "enter", wait |-> c, timer |-> Interval(d), tick |-> FALSE]

\* The select has a ready case.
Ready(d, c) ==
    /\ loops[d][c].st = "select"
    /\ (loops[d][c].tick \/ loops[d][c].wait \in cancelled[d])

Live(d) == {c \in Cycles : loops[d][c].st \in {"enter", "select"}}

----------------------------------------------------------------------------
(* Results *)

NoResult == [op |-> "none", err |-> "nil", nodes |-> <<>>, iterErr |-> FALSE]

NoIter == [pos |-> 0, ret |-> <<>>]

Returned(op, err) == [op |-> op, err |-> err, nodes |-> <<>>, iterErr |-> FALSE]

----------------------------------------------------------------------------
(* NewDriver and Init *)

\* The state after NewDriver and Init(svc[d], Timeout option) on every driver.
InitState(svc) ==
    /\ serviceName = svc
    /\ nodeID = [d \in Drivers |-> GetNodeId(svc[d], d)]
    /\ timeout \in [Drivers -> Timeouts]
    /\ started = [d \in Drivers |-> FALSE]
    /\ runtimeCtx = [d \in Drivers |-> 0]
    /\ cancelled = [d \in Drivers |-> {}]
    /\ mutex = [d \in Drivers |-> None]
    /\ pc = [t \in Threads |-> "idle"]
    /\ result = [t \in Threads |-> NoResult]
    /\ iter = [t \in Threads |-> NoIter]
    /\ loops = [d \in Drivers |-> [c \in Cycles |-> NoLoop]]
    /\ store = <<>>
    /\ logged = [d \in Drivers |-> {}]
    /\ sinceWrite = [d \in Drivers |-> 0]
    /\ renewFails = [d \in Drivers |-> 0]
    /\ sinceStop = [d \in Drivers |-> 0]

\* Both drivers serve the namespace j.
Init == InitState([d \in Drivers |-> <<"j">>])

----------------------------------------------------------------------------
(* Start *)

\* A registration whose lease outlives the configured timeout.
registerServiceNodeLongLease(d) == SetEx(store, nodeID[d], nodeID[d], 2 * timeout[d])

\* rd.registerServiceNode(): SETEX nodeID timeout nodeID
registerServiceNode(d) == SetEx(store, nodeID[d], nodeID[d], timeout[d])

\* A Start that never finds the driver started.
NeverStarted(d) == FALSE

\* The guard of Start: if rd.started { err = errors.New(...); return }
AlreadyStarted(d) == started[d]

\* Start, up to the registration: take the lock; reject a started driver;
\* otherwise create the runtime context and set started.  The lock is kept
\* (defer rd.Unlock()) until Start returns.  cap bounds the cycles.
StartBegin(t, cap) ==
    LET d == Owner(t) IN
    /\ pc[t] = "idle"
    /\ mutex[d] = None
    /\ IF AlreadyStarted(d)
       THEN /\ result' = [result EXCEPT ![t] = Returned("Start", "AlreadyStarted")]
            /\ UNCHANGED <<started, runtimeCtx, mutex, pc, sinceStop>>
       ELSE /\ runtimeCtx[d] < cap
            /\ runtimeCtx' = [runtimeCtx EXCEPT ![d] = @ + 1]
            /\ started' = [started EXCEPT ![d] = TRUE]
            /\ sinceStop' = [sinceStop EXCEPT ![d] = 0]
            /\ mutex' = [mutex EXCEPT ![d] = t]
            /\ pc' = [pc EXCEPT ![t] = "register"]
            /\ result' = [result EXCEPT ![t] = NoResult]
    /\ UNCHANGED <<serviceName, nodeID, timeout, cancelled, iter, loops, store,
                   logged, sinceWrite, renewFails>>

\* err = rd.registerServiceNode(): the SETEX takes effect in the store, or fails.
StartRegister(t) ==
    LET d == Owner(t) IN
    /\ pc[t] = "register"
    /\ \E ok \in BOOLEAN :
         IF ok
         THEN /\ store' = registerServiceNode(d)
              /\ sinceWrite' = [sinceWrite EXCEPT ![d] = 0]
              /\ renewFails' = [renewFails EXCEPT ![d] = 0]
              /\ pc' = [pc EXCEPT ![t] = "registered"]
         ELSE /\ pc' = [pc EXCEPT ![t] = "failed"]
              /\ UNCHANGED <<store, sinceWrite, renewFails>>
    /\ UNCHANGED <<serviceName, nodeID, timeout, started, runtimeCtx, cancelled, mutex,
                   result, iter, loops, logged, sinceStop>>

\* A Start that launches the heartbeat goroutine before looking at the error.
StartReturnAlwaysLaunches(t) ==
    LET d == Owner(t) IN
    /\ pc[t] \in {"registered", "failed"}
    /\ loops' = [loops EXCEPT ![d][runtimeCtx[d]] = Launched(d, runtimeCtx[d])]
    /\ IF pc[t] = "failed"
       THEN /\ logged' = [logged EXCEPT ![d] = @ \cup {"register"}]
            /\ result' = [result EXCEPT ![t] = Returned("Start", "StoreUnavailable")]
       ELSE /\ result' = [result EXCEPT ![t] = Returned("Start", "nil")]
            /\ UNCHANGED logged
    /\ mutex' = [mutex EXCEPT ![d] = None]
    /\ pc' = [pc EXCEPT ![t] = "idle"]
    /\ UNCHANGED <<serviceName, nodeID, timeout, started, runtimeCtx, cancelled, iter,
                   store, sinceWrite, renewFails, sinceStop>>

\* The rest of Start: on an error log it and return it; otherwise launch the
\* heartbeat goroutine and return nil.  The deferred Unlock releases the lock.
StartReturn(t) ==
    LET d == Owner(t) IN
    /\ pc[t] \in {"registered", "failed"}
    /\ IF pc[t] = "failed"
       THEN /\ logged' = [logged EXCEPT ![d] = @ \cup {"register"}]
            /\ result' = [result EXCEPT ![t] = Returned("Start", "StoreUnavailable")]
            /\ UNCHANGED loops
       ELSE /\ loops' = [loops EXCEPT ![d][runtimeCtx[d]] = Launched(d, runtimeCtx[d])]
            /\ result' = [result EXCEPT ![t] = Returned("Start", "nil")]
            /\ UNCHANGED logged
    /\ mutex' = [mutex EXCEPT ![d] = None]
    /\ pc' = [pc EXCEPT ![t] = "idle"]
    /\ UNCHANGED <<serviceName, nodeID, timeout, started, runtimeCtx, cancelled, iter,
                   store, sinceWrite, renewFails, sinceStop>>

----------------------------------------------------------------------------
(* Stop *)

\* A Stop that clears started and forgets to cancel the runtime context.
StopWithoutCancel(t) ==
    LET d == Owner(t) IN
    /\ pc[t] = "idle"
    /\ mutex[d] = None
    /\ started' = [started EXCEPT ![d] = FALSE]
    /\ sinceStop' = [sinceStop EXCEPT ![d] = IF started[d] THEN 0 ELSE @]
    /\ result' = [result EXCEPT ![t] = Returned("Stop", "nil")]
    /\ UNCHANGED <<serviceName, nodeID, timeout, runtimeCtx, cancelled, mutex, pc, iter,
                   loops, store, logged, sinceWrite, renewFails>>

\* A Stop that cancels the runtime context and forgets to clear started.
StopKeepsStarted(t) ==
    LET d == Owner(t) IN
    /\ pc[t] = "idle"
    /\ mutex[d] = None
    /\ IF runtimeCtx[d] = 0
       THEN /\ result' = [result EXCEPT ![t] = Returned("Stop", "panic")]
            /\ UNCHANGED cancelled
       ELSE /\ cancelled' = [cancelled EXCEPT ![d] = @ \cup {runtimeCtx[d]}]
            /\ result' = [result EXCEPT ![t] = Returned("Stop", "nil")]
    /\ UNCHANGED <<serviceName, nodeID, timeout, started, runtimeCtx, mutex, pc, iter,
                   loops, store, logged, sinceWrite, renewFails, sinceStop>>

\* A Stop that does not take the lock.
StopUnlocked(t) ==
    LET d == Owner(t) IN
    /\ pc[t] = "idle"
    /\ IF runtimeCtx[d] = 0
       THEN /\ result' = [result EXCEPT ![t] = Returned("Stop", "panic")]
            /\ UNCHANGED <<cancelled, started, sinceStop>>
       ELSE /\ cancelled' = [cancelled EXCEPT ![d] = @ \cup {runtimeCtx[d]}]
            /\ started' = [started EXCEPT ![d] = FALSE]
            /\ sinceStop' = [sinceStop EXCEPT ![d] = IF started[d] THEN 0 ELSE @]
            /\ result' = [result EXCEPT ![t] = Returned("Stop", "nil")]
    /\ UNCHANGED <<serviceName, nodeID, timeout, runtimeCtx, mutex, pc, iter, loops,
                   store, logged, sinceWrite, renewFails>>

\* Stop: take the lock, call rd.runtimeCancel(), clear started, return nil.
\* runtimeCancel is nil until the first Start has created a context: calling
\* it then panics (nil func call) before started is written; the deferred
\* Unlock still runs.  Cancelling a cancelled context does nothing.
Stop(t) ==
    LET d == Owner(t) IN
    /\ pc[t] = "idle"
    /\ mutex[d] = None
    /\ IF runtimeCtx[d] = 0
       THEN /\ result' = [result EXCEPT ![t] = Returned("Stop", "panic")]
            /\ UNCHANGED <<cancelled, started, sinceStop>>
       ELSE /\ cancelled' = [cancelled EXCEPT ![d] = @ \cup {runtimeCtx[d]}]
            /\ started' = [started EXCEPT ![d] = FALSE]
            /\ sinceStop' = [sinceStop EXCEPT ![d] = IF started[d] THEN 0 ELSE @]
            /\ result' = [result EXCEPT ![t] = Returned("Stop", "nil")]
    /\ UNCHANGED <<serviceName, nodeID, timeout, runtimeCtx, mutex, pc, iter, loops,
                   store, logged, sinceWrite, renewFails>>

----------------------------------------------------------------------------
(* heartBeat *)

\* The goroutine evaluates the select's channel operands: it reads
\* rd.runtimeCtx without the lock, while Start may be writing it.  The read
\* yields the context of some cycle from the one it last saw up to the
\* current one.
LoopEnter(d, c) ==
    /\ loops[d][c].st = "enter"
    /\ \E w \in loops[d][c].wait..runtimeCtx[d] :
         loops' = [loops EXCEPT ![d][c].st = "select", ![d][c].wait = w]
    /\ UNCHANGED <<serviceName, nodeID, timeout, started, runtimeCtx, cancelled, mutex,
                   pc, result, iter, store, logged, sinceWrite, renewFails, sinceStop>>

\* A heartbeat whose goroutine returns when a renewal fails.
LoopTickFatal(d, c) ==
    /\ loops[d][c].st = "select"
    /\ loops[d][c].tick
    /\ \E ok \in BOOLEAN :
         IF ok
         THEN /\ loops' = [loops EXCEPT ![d][c].st = "enter", ![d][c].tick = FALSE]
              /\ store' = registerServiceNode(d)
              /\ sinceWrite' = [sinceWrite EXCEPT ![d] = 0]
              /\ renewFails' = [renewFails EXCEPT ![d] = 0]
              /\ UNCHANGED logged
         ELSE /\ loops' = [loops EXCEPT ![d][c] = DeadLoop]
              /\ logged' = [logged EXCEPT ![d] = @ \cup {"renew"}]
              /\ renewFails' = [renewFails EXCEPT ![d] = IF @ < 2 THEN @ + 1 ELSE @]
              /\ UNCHANGED <<store, sinceWrite>>
    /\ UNCHANGED <<serviceName, nodeID, timeout, started, runtimeCtx, cancelled, mutex,
                   pc, result, iter, sinceStop>>

\* case <-tick.C: renew the lease; log a failure and keep looping.
LoopTick(d, c) ==
    /\ loops[d][c].st = "select"
    /\ loops[d][c].tick
    /\ loops' = [loops EXCEPT ![d][c].st = "enter", ![d][c].tick = FALSE]
    /\ \E ok \in BOOLEAN :
         IF ok
         THEN /\ store' = registerServiceNode(d)
              /\ sinceWrite' = [sinceWrite EXCEPT ![d] = 0]
              /\ renewFails' = [renewFails EXCEPT ![d] = 0]
              /\ UNCHANGED logged
         ELSE /\ logged' = [logged EXCEPT ![d] = @ \cup {"renew"}]
              /\ renewFails' = [renewFails EXCEPT ![d] = IF @ < 2 THEN @ + 1 ELSE @]
              /\ UNCHANGED <<store, sinceWrite>>
    /\ UNCHANGED <<serviceName, nodeID, timeout, started, runtimeCtx, cancelled, mutex,
                   pc, result, iter, sinceStop>>

\* A Done case that deletes the key and goes on looping instead of returning.
LoopDoneKeepsLooping(d, c) ==
    /\ loops[d][c].st = "select"
    /\ loops[d][c].wait \in cancelled[d]
    /\ loops' = [loops EXCEPT ![d][c].st = "enter"]
    /\ \E ok \in BOOLEAN :
         IF ok
         THEN /\ store' = Del(store, {nodeID[d], nodeID[d]})
              /\ UNCHANGED logged
         ELSE /\ logged' = [logged EXCEPT ![d] = @ \cup {"unregister"}]
              /\ UNCHANGED store
    /\ UNCHANGED <<serviceName, nodeID, timeout, started, runtimeCtx, cancelled, mutex,
                   pc, result, iter, sinceWrite, renewFails, sinceStop>>

\* case <-rd.runtimeCtx.Done(): delete the lease key, log a failure, return.
LoopDone(d, c) ==
    /\ loops[d][c].st = "select"
    /\ loops[d][c].wait \in cancelled[d]
    /\ loops' = [loops EXCEPT ![d][c] = DeadLoop]
    /\ \E ok \in BOOLEAN :
         IF ok
         THEN /\ store' = Del(store, {nodeID[d], nodeID[d]})
              /\ UNCHANGED logged
         ELSE /\ logged' = [logged EXCEPT ![d] = @ \cup {"unregister"}]
              /\ UNCHANGED store
    /\ UNCHANGED <<serviceName, nodeID, timeout, started, runtimeCtx, cancelled, mutex,
                   pc, result, iter, sinceWrite, renewFails, sinceStop>>

----------------------------------------------------------------------------
(* Time *)

\* Nothing is in progress: every caller is between calls and every heartbeat
\* goroutine is blocked in its select with no ready case.
Quiet ==
    /\ \A t \in Threads : pc[t] = "idle"
    /\ \A d \in Drivers : \A c \in Cycles :
         /\ loops[d][c].st # "enter"
         /\ ~Ready(d, c)

\* The ticker of a goroutine blocked in select: it fires every Interval.
Advance(d, l) ==
    IF l.st # "select" THEN l
    ELSE IF l.timer = 1 THEN [l EXCEPT !.timer = Interval(d), !.tick = TRUE]
    ELSE [l EXCEPT !.timer = @ - 1]

\* One time unit passes: leases age and expire, tickers count down.
Tick ==
    /\ Quiet
    /\ store' = Expire(store)
    /\ loops' = [d \in Drivers |-> [c \in Cycles |-> Advance(d, loops[d][c])]]
    /\ sinceWrite' = [d \in Drivers |->
                        IF sinceWrite[d] <= timeout[d] THEN sinceWrite[d] + 1
                        ELSE sinceWrite[d]]
    /\ sinceStop' = [d \in Drivers |->
                       IF ~started[d] /\ runtimeCtx[d] > 0 /\ sinceStop[d] < timeout[d]
                       THEN sinceStop[d] + 1
                       ELSE sinceStop[d]]
    /\ UNCHANGED <<serviceName, nodeID, timeout, started, runtimeCtx, cancelled, mutex,
                   pc, result, iter, logged, renewFails>>

----------------------------------------------------------------------------
(* GetNodes and scan *)

\* A GetNodes that serves only a started driver.
GetNodesOfStarted(t) ==
    /\ started[Owner(t)]
    /\ pc[t] = "idle"
    /\ pc' = [pc EXCEPT ![t] = "scan"]
    /\ iter' = [iter EXCEPT ![t] = [pos |-> 1, ret |-> <<>>]]
    /\ result' = [result EXCEPT ![t] = NoResult]
    /\ UNCHANGED <<serviceName, nodeID, timeout, started, runtimeCtx, cancelled, mutex,
                   loops, store, logged, sinceWrite, renewFails, sinceStop>>

\* GetNodes: build the pattern and enter scan; ret := make([]string, 0).
GetNodes(t) ==
    /\ pc[t] = "idle"
    /\ pc' = [pc EXCEPT ![t] = "scan"]
    /\ iter' = [iter EXCEPT ![t] = [pos |-> 1, ret |-> <<>>]]
    /\ result' = [result EXCEPT ![t] = NoResult]
    /\ UNCHANGED <<serviceName, nodeID, timeout, started, runtimeCtx, cancelled, mutex,
                   loops, store, logged, sinceWrite, renewFails, sinceStop>>

\* The page SCAN returns for cursor position pos: the key in that slot, if it
\* is live and matches the pattern.
Page(pos, pattern) ==
    LET k == nodeID[KeyOrder[pos]] IN
    IF k \in DOMAIN store /\ GlobMatch(pattern, k) THEN <<k>> ELSE <<>>

\* The body of scan's loop, run for a value val when iter.Next returned true,
\* with iterErr what iter.Err() returns there.
ScanBody(ret, val, iterErr) ==
    IF iterErr
    THEN [done |-> TRUE, nodes |-> <<>>, err |-> "StoreUnavailable"]
    ELSE [done |-> FALSE, nodes |-> Append(ret, val), err |-> "nil"]

\* One page of the scan.  ScanIterator.Next returns false when the page fetch
\* failed and when the cursor is exhausted, and true for each value of a
\* fetched page; scan's loop ends on false and scan returns ret, nil.
ScanPage(t) ==
    LET d == Owner(t)
        pos == iter[t].pos
        page == Page(pos, MatchStr(serviceName[d]))
        body == ScanBody(iter[t].ret, page[1], FALSE)
        ret == IF page = <<>> THEN iter[t].ret ELSE body.nodes
    IN
    /\ pc[t] = "scan"
    /\ \E ok \in BOOLEAN :
         IF ~ok
         THEN /\ result' = [result EXCEPT ![t] =
                    [op |-> "GetNodes", err |-> "nil", nodes |-> iter[t].ret,
                     iterErr |-> TRUE]]
              /\ pc' = [pc EXCEPT ![t] = "idle"]
              /\ iter' = [iter EXCEPT ![t] = NoIter]
         ELSE IF pos = Len(KeyOrder)
         THEN /\ result' = [result EXCEPT ![t] =
                    [op |-> "GetNodes", err |-> "nil", nodes |-> ret,
                     iterErr |-> FALSE]]
              /\ pc' = [pc EXCEPT ![t] = "idle"]
              /\ iter' = [iter EXCEPT ![t] = NoIter]
         ELSE /\ iter' = [iter EXCEPT ![t] = [pos |-> pos + 1, ret |-> ret]]
              /\ UNCHANGED <<pc, result>>
    /\ UNCHANGED <<serviceName, nodeID, timeout, started, runtimeCtx, cancelled, mutex,
                   loops, store, logged, sinceWrite, renewFails, sinceStop>>

----------------------------------------------------------------------------
(* Specifications *)

\* One driver, called from two goroutines at once.
Next ==
    \/ \E t \in {"a", "b"} : StartBegin(t, MaxCycle)
    \/ \E t \in {"a", "b"} : StartRegister(t)
    \/ \E t \in {"a", "b"} : StartReturn(t)
    \/ \E t \in {"a", "b"} : Stop(t)
    \/ \E c \in Cycles : LoopEnter("d1", c)
    \/ \E c \in Cycles : LoopTick("d1", c)
    \/ \E c \in Cycles : LoopDone("d1", c)
    \/ Tick

\* Only the first driver is used; the second is configured and left alone.
InitSolo == Init /\ timeout["d2"] = 2

Spec == InitSolo /\ [][Next]_vars

\* One driver, called from one goroutine.
NextSolo ==
    \/ StartBegin("a", MaxCycle)
    \/ StartRegister("a")
    \/ StartReturn("a")
    \/ Stop("a")
    \/ \E c \in Cycles : LoopEnter("d1", c)
    \/ \E c \in Cycles : LoopTick("d1", c)
    \/ \E c \in Cycles : LoopDone("d1", c)
    \/ Tick

\* The Go scheduler runs every runnable goroutine: a call in progress goes on,
\* a heartbeat goroutine with a ready select case takes a case, and time
\* passes.  Nothing obliges a caller to call Start or Stop.
Fairness ==
    /\ WF_vars(StartRegister("a"))
    /\ WF_vars(StartReturn("a"))
    /\ \A c \in Cycles : WF_vars(LoopEnter("d1", c))
    /\ \A c \in Cycles : WF_vars(LoopTick("d1", c))
    /\ \A c \in Cycles : WF_vars(LoopDone("d1", c))
    /\ WF_vars(Tick)

FairSpec == InitSolo /\ [][NextSolo]_vars /\ Fairness

\* Two drivers of one namespace, each called from one goroutine, one cycle each.
NextPeers ==
    \/ \E t \in {"a", "q"} : StartBegin(t, 1)
    \/ \E t \in {"a", "q"} : StartRegister(t)
    \/ \E t \in {"a", "q"} : StartReturn(t)
    \/ \E t \in {"a", "q"} : Stop(t)
    \/ \E t \in {"a", "q"} : GetNodes(t)
    \/ \E t \in {"a", "q"} : ScanPage(t)
    \/ \E d \in Drivers : LoopEnter(d, 1)
    \/ \E d \in Drivers : LoopTick(d, 1)
    \/ \E d \in Drivers : LoopDone(d, 1)
    \/ Tick

\* The second driver keeps the smallest timeout.
InitPeers == Init /\ timeout["d2"] = 2

SpecPeers == InitPeers /\ [][NextPeers]_vars

\* The service names drivers are initialised with: a name, a name it is a
\* prefix of, and a name holding a glob character.
ServiceNames == {<<"j">>, <<"j", "o">>, <<"j", "*">>}

\* Two drivers of two different namespaces.
InitNames ==
    /\ \E svc \in [Drivers -> ServiceNames] :
          /\ svc["d1"] # svc["d2"]
          /\ InitState(svc)
    /\ timeout = [d \in Drivers |-> 2]

\* Both register and renew while either lists the nodes of its namespace.
NextNames ==
    \/ \E t \in {"a", "q"} : StartBegin(t, 1)
    \/ \E t \in {"a", "q"} : StartRegister(t)
    \/ \E t \in {"a", "q"} : StartReturn(t)
    \/ \E t \in {"a", "q"} : GetNodes(t)
    \/ \E t \in {"a", "q"} : ScanPage(t)
    \/ \E d \in Drivers : LoopEnter(d, 1)
    \/ \E d \in Drivers : LoopTick(d, 1)
    \/ Tick

SpecNames == InitNames /\ [][NextNames]_vars

----------------------------------------------------------------------------
(* Claims *)

\* The lease of driver d as registration writes it.
LeaseHeld(d) ==
    /\ Present(d)
    /\ store[nodeID[d]].val = nodeID[d]
    /\ store[nodeID[d]].ttl > 0
    /\ store[nodeID[d]].ttl <= timeout[d]

InSeq(x, s) == \E i \in 1..Len(s) : s[i] = x

\* Thread t takes a step of a Start call.
StartStep(t) ==
    \/ pc[t] = "idle" /\ pc'[t] = "register"
    \/ pc[t] = "idle" /\ result'[t] # result[t] /\ result'[t].op = "Start"

\* C1: a Start on a driver that is started (a Start went through and no Stop
\* followed) returns AlreadyStarted, and that call writes no lease key,
\* launches no heartbeat loop and leaves the runtime context as it is.
C1_SecondStartRejected ==
    [][\A t \in Threads :
         (StartStep(t) /\ started[Owner(t)]) =>
             /\ result'[t] = Returned("Start", "AlreadyStarted")
             /\ pc'[t] = "idle"
             /\ UNCHANGED <<store, loops, runtimeCtx, cancelled, started>>]_vars

C1_Witness ==
    /\ result["a"] = Returned("Start", "nil")
    /\ result["b"] = Returned("Start", "AlreadyStarted")
    /\ Cardinality(Live("d1")) = 1
    /\ runtimeCtx["d1"] = 1

\* C2: Start returns only after its registration write has succeeded or
\* failed; a heartbeat loop is launched only by the return of a Start whose
\* write succeeded, for the cycle of that Start; a Start whose write failed
\* returns the error and launches nothing.
C2_RegisterBeforeLaunch ==
    [][\A d \in Drivers :
         /\ \A t \in Threads :
              Owner(t) = d =>
                /\ (pc[t] = "register") =>
                       (pc'[t] # "idle" /\ loops'[d][runtimeCtx[d]].st = "none")
                /\ (pc[t] = "failed" /\ pc'[t] = "idle") =>
                       /\ result'[t] = Returned("Start", "StoreUnavailable")
                       /\ \A c \in Cycles : loops'[d][c].st = "none" <=> loops[d][c].st = "none"
                /\ (pc[t] = "registered" /\ pc'[t] = "idle") =>
                       /\ result'[t] = Returned("Start", "nil")
                       /\ loops'[d][runtimeCtx[d]].st = "enter"
         /\ \A c \in Cycles :
              (loops[d][c].st = "none" /\ loops'[d][c].st # "none") =>
                  \E t \in Threads :
                      /\ Owner(t) = d
                      /\ pc[t] = "registered" /\ pc'[t] = "idle"
                      /\ c = runtimeCtx[d]]_vars

C2_Witness ==
    /\ result["a"] = Returned("Start", "StoreUnavailable")
    /\ "register" \in logged["d1"]
    /\ runtimeCtx["d1"] = 1
    /\ loops["d1"][1].st = "none"
    /\ pc["a"] = "idle"

\* C3 (as claimed): when the registration write of a Start fails, the driver
\* is in state stopped once that Start has returned the error.
C3_FailedStartRolledBack ==
    [][\A t \in Threads :
         (pc[t] = "failed" /\ pc'[t] = "idle") => ~started'[Owner(t)]]_vars

\* Thread t returns from a Stop call.
StopReturns(t) == result'[t] # result[t] /\ result'[t].op = "Stop"

\* C4 (as claimed): Stop completes normally in every lifecycle state and
\* leaves the lifecycle state stopped.
C4_StopNeverCrashes ==
    [][\A t \in Threads :
         StopReturns(t) => (result'[t].err = "nil" /\ ~started'[Owner(t)])]_vars

\* C5 (as claimed): whenever Start returns success the store holds the lease
\* key of the node, with the node identity as value and a remaining TTL that
\* is positive and at most the timeout.
C5_LeaseHeldAtStartReturn ==
    [][\A t \in Threads :
         (pc[t] = "registered" /\ pc'[t] = "idle") => LeaseHeld(Owner(t))']_vars

\* C6: if from some point on the driver stays stopped (Stop was called and no
\* Start went through again), then from some point on the lease key is
\* absent from the store, whether the deregistration delete succeeds or not.
C6_AbsentAfterStop ==
    <>[](~started["d1"]) => <>[](~Present("d1"))

C6_Witness ==
    /\ result["a"] = Returned("Stop", "nil")
    /\ ~started["d1"]
    /\ Present("d1")
    /\ Live("d1") # {}
    /\ pc["a"] = "idle"

\* A step is a Stop of driver d.
StopStep(d) ==
    \/ cancelled'[d] # cancelled[d]
    \/ started[d] /\ ~started'[d]
    \/ \E t \in Threads : Owner(t) = d /\ StopReturns(t)

\* The heartbeat loop of cycle c of driver d ends with a failed delete.
DeleteFails(d, c) ==
    /\ loops[d][c].st = "select"
    /\ loops'[d][c].st = "dead"
    /\ store' = store

\* C7: a Stop of a running driver sets the lifecycle state to stopped, cancels
\* the runtime context and returns nil in the same step, with the heartbeat
\* loops and the store untouched (it does not wait for the delete); a
\* heartbeat loop whose delete fails logs it and changes neither a call's
\* result nor the lifecycle state.
C7_StopSucceedsLocally ==
    [][\A d \in Drivers :
         /\ (StopStep(d) /\ started[d]) =>
                /\ ~started'[d]
                /\ runtimeCtx[d] \in cancelled'[d]
                /\ \E t \in Threads :
                     /\ Owner(t) = d
                     /\ pc[t] = "idle" /\ pc'[t] = "idle"
                     /\ result'[t] = Returned("Stop", "nil")
                /\ UNCHANGED <<store, loops, runtimeCtx>>
         /\ \A c \in Cycles :
                (DeleteFails(d, c) /\ Present(d)) =>
                    /\ "unregister" \in logged'[d]
                    /\ UNCHANGED <<started, result, pc, cancelled>>]_vars

C7_Witness ==
    /\ result["a"] = Returned("Stop", "nil")
    /\ ~started["d1"]
    /\ loops["d1"][1].st = "dead"
    /\ "unregister" \in logged["d1"]
    /\ Present("d1")

\* Driver d is between a successful Start and the next Stop.
Running(d) ==
    /\ started[d]
    /\ runtimeCtx[d] > 0
    /\ loops[d][runtimeCtx[d]].st # "none"

\* C8 (as claimed): while the driver is running and no two consecutive
\* renewal attempts have failed, the lease key is present in the store.
C8_LeaseHeldWhileRunning ==
    \A d \in Drivers : (Running(d) /\ renewFails[d] < 2) => Present(d)

\* The scan of thread t lists the key of driver d.
Listed(t, d) == InSeq(nodeID[d], iter[t].ret) \/ InSeq(nodeID[d], result[t].nodes)

\* C9: once no registration write of a node has taken effect for longer than
\* its timeout, its lease key is absent from the store, and no scan of
\* another driver of the namespace adds it to its list.
C9_ExpiredWithoutRenewal ==
    /\ [](\A d \in Drivers : sinceWrite[d] > timeout[d] => ~Present(d))
    /\ [][\A d \in Drivers : \A t \in Threads :
            (Owner(t) # d /\ sinceWrite[d] > timeout[d] /\ pc[t] = "scan") =>
                (Listed(t, d)' => Listed(t, d))]_vars

C9_Witness ==
    /\ started["d1"]
    /\ loops["d1"][1].st = "select"
    /\ sinceWrite["d1"] > timeout["d1"]
    /\ started["d2"]
    /\ result["q"].op = "GetNodes"
    /\ result["q"].nodes = <<nodeID["d2"]>>
    /\ ~result["q"].iterErr

\* C10 (as claimed): a GetNodes whose scan failed on some page returns an
\* error and no node list.
C10_ScanAllOrNothing ==
    \A t \in Threads :
        (result[t].op = "GetNodes" /\ result[t].iterErr) =>
            (result[t].err # "nil" /\ result[t].nodes = <<>>)

\* C11 (as claimed): a GetNodes of a driver never returns the identity of a
\* driver initialised with a different service name.
C11_NamespaceIsolation ==
    \A t \in Threads : \A d \in Drivers :
        (result[t].op = "GetNodes" /\ serviceName[d] # serviceName[Owner(t)]) =>
            ~InSeq(nodeID[d], result[t].nodes)

\* The GetNodes of caller t returns in this step.
ScanReturns(t) == pc[t] = "scan" /\ pc'[t] = "idle"

\* Driver d is running and its lease, last written at an earlier instant
\* than the current one, is in the store.
Renewing(d) == Running(d) /\ Present(d) /\ sinceWrite[d] >= 1

\* A Stop has taken driver d from started to stopped at least one full
\* timeout ago.
StoppedForTimeout(d) ==
    ~started[d] /\ runtimeCtx[d] > 0 /\ sinceStop[d] >= timeout[d]

\* C12 (as claimed): with two drivers of one namespace both running and
\* renewing, a GetNodes of either returns exactly the two identities; once one
\* of them has been stopped for a full timeout, a GetNodes returns exactly the
\* identity of the other, whether the stopped driver's delete succeeded or not.
C12_PeersListed ==
    [][\A t \in {"a", "q"} : ScanReturns(t) =>
         /\ (\A d \in Drivers : Renewing(d)) =>
                /\ Len(result'[t].nodes) = 2
                /\ \A d \in Drivers : InSeq(nodeID[d], result'[t].nodes)
         /\ \A d, e \in Drivers :
                (d # e /\ StoppedForTimeout(d) /\ Renewing(e)) =>
                    result'[t].nodes = <<nodeID[e]>>]_vars

\* A SETEX of driver d's key has taken effect at some time: a Start has
\* registered (and, having returned, launched its goroutine).
Wrote(d) ==
    \/ \E c \in Cycles : loops[d][c].st # "none"
    \/ \E t \in Threads : Owner(t) = d /\ pc[t] = "registered"

\* The most recent write of driver d's key has not yet expired.
LeaseFresh(d) == Wrote(d) /\ sinceWrite[d] < timeout[d]

\* C13 (as claimed): in every reachable state the lease key of a driver is in
\* the store if and only if the driver is started and its most recent write
\* has not expired.
C13_LeaseIffRunning ==
    \A d \in Drivers : Present(d) <=> (started[d] /\ LeaseFresh(d))

\* C13 (amended): the lease key of a driver is in the store only if its most
\* recent write has not expired and the driver is started or was stopped less
\* than a timeout ago; the key may outlive Stop, and may be missing while the
\* driver is started.
C13_LeaseOnlyWhileFresh ==
    \A d \in Drivers :
        Present(d) => /\ LeaseFresh(d)
                      /\ started[d] \/ sinceStop[d] < timeout[d]

\* Stop has returned, the delete has failed and the key is still in the store.
C13_Witness ==
    /\ Present("d1")
    /\ ~started["d1"]
    /\ loops["d1"][1].st = "dead"
    /\ "unregister" \in logged["d1"]
    /\ sinceStop["d1"] = 1

\* Caller t enters GetNodes, or its scan fetches a page or returns.
ScanStep(t) ==
    \/ pc[t] = "idle" /\ pc'[t] = "scan"
    \/ pc[t] = "scan" /\ (iter'[t] # iter[t] \/ pc'[t] = "idle")

\* The identities collected by the scan of caller t after this step.
Collected(t) == IF pc'[t] = "idle" THEN result'[t].nodes ELSE iter'[t].ret

\* The key of driver d as the store holds it, whatever d's lifecycle state.
Stored(d) == IF nodeID[d] \in DOMAIN store THEN <<nodeID[d]>> ELSE <<>>

\* C14: GetNodes can be called in every lifecycle state of its driver (never
\* started, running, stopped); each page adds what the store holds for that
\* slot and nothing else decides the result; no step of GetNodes changes a
\* driver's started flag, runtime context, cancellations, goroutines, lock or
\* node identity, or the store.
C14_DiscoverReadsOnly ==
    /\ [](\A t \in {"a", "q"} : pc[t] = "idle" => ENABLED GetNodes(t))
    /\ [][\A t \in {"a", "q"} : ScanStep(t) =>
            /\ UNCHANGED <<serviceName, nodeID, started, runtimeCtx, cancelled,
                           mutex, loops, store>>
            /\ pc[t] = "scan" =>
                 \/ Collected(t) = iter[t].ret \o Stored(KeyOrder[iter[t].pos])
                 \/ /\ pc'[t] = "idle"
                    /\ result'[t].iterErr
                    /\ Collected(t) = iter[t].ret]_vars

\* A never started driver has listed the node of its running peer.
C14_Witness ==
    /\ runtimeCtx["d2"] = 0
    /\ Running("d1")
    /\ result["q"] = [op |-> "GetNodes", err |-> "nil",
                      nodes |-> <<nodeID["d1"]>>, iterErr |-> FALSE]

\* The goroutine of cycle c leaves its select in this step: one of its cases
\* is ready (time does not pass then) and its record changes.
LoopActs(d, c) ==
    /\ loops[d][c].st = "select"
    /\ Ready(d, c)
    /\ loops'[d][c] # loops[d][c]

\* The step renews the lease of d, or fails to and logs it.
RenewalAttempt(d) ==
    \/ /\ Present(d)'
       /\ store'[nodeID[d]].ttl = timeout[d]
       /\ sinceWrite'[d] = 0
    \/ /\ store' = store
       /\ "renew" \in logged'[d]

\* C15: a heartbeat goroutine that leaves its select on a tick attempts the
\* renewal, which makes the key present or is logged, and, failed or not,
\* loops on with the driver's started flag as it was; a pending tick of a
\* goroutine whose context is not cancelled is always attended this way; a
\* goroutine ends only in a step taken with its context cancelled.
C15_RenewalFailureNotFatal ==
    [][\A d \in Drivers : \A c \in Cycles :
         /\ LoopActs(d, c) =>
              \/ /\ loops[d][c].tick
                 /\ loops'[d][c].st = "enter"
                 /\ started'[d] = started[d]
                 /\ RenewalAttempt(d)
              \/ /\ loops[d][c].wait \in cancelled[d]
                 /\ loops'[d][c].st = "dead"
         /\ (loops[d][c].st # "dead" /\ loops'[d][c].st = "dead") =>
              /\ loops[d][c].st = "select"
              /\ loops[d][c].wait \in cancelled[d]]_vars

\* In the first cycle a renewal failed and a later one succeeded: the key is
\* present and fresh, the driver is running, and no Start was made since.
C15_Witness ==
    /\ runtimeCtx["d1"] = 1
    /\ started["d1"]
    /\ "renew" \in logged["d1"]
    /\ renewFails["d1"] = 0
    /\ loops["d1"][1].st = "enter"
    /\ Present("d1")
    /\ sinceWrite["d1"] = 0

\* The goroutine of cycle c takes the tick case in this step.
TickBranch(d, c) ==
    /\ loops[d][c].tick
    /\ ~loops'[d][c].tick
    /\ loops'[d][c].st = "enter"

\* The step issues one delete of d's key: it removes the key, or it fails,
\* is logged and leaves the store as it was.
OneDelete(d) ==
    \/ store' = Del(store, {nodeID[d]})
    \/ /\ store' = store
       /\ "unregister" \in logged'[d]

\* C16: a heartbeat goroutine that leaves its select otherwise than by the
\* tick case has its context cancelled, issues one delete of the lease key
\* and is dead after the step, a pending tick dropped, the delete failed or
\* not; a dead goroutine never takes a step again, so it neither renews nor
\* deletes a second time.
C16_OneDeleteThenDead ==
    [][\A d \in Drivers : \A c \in Cycles :
         /\ (LoopActs(d, c) /\ ~TickBranch(d, c)) =>
              /\ loops[d][c].wait \in cancelled[d]
              /\ OneDelete(d)
              /\ loops'[d][c] = DeadLoop
         /\ loops[d][c].st = "dead" => loops'[d][c] = loops[d][c]]_vars

\* The goroutine of the first cycle is dead after a failed delete while the
\* goroutine of the second cycle renews the lease.
C16_Witness ==
    /\ loops["d1"][1] = DeadLoop
    /\ "unregister" \in logged["d1"]
    /\ started["d1"]
    /\ loops["d1"][2].st = "select"
    /\ loops["d1"][2].wait = 2
    /\ Present("d1")

\* C17 (as claimed): a heartbeat goroutine waits on the context of the Start
\* that launched it and on no other, and once every cancellation has been
\* served (no call in progress, no goroutine with a ready case) a running
\* driver has exactly one live heartbeat goroutine.
C17_LoopBoundToItsCycle ==
    \A d \in Drivers :
        /\ \A c \in Cycles : loops[d][c].st = "select" => loops[d][c].wait = c
        /\ (Quiet /\ Running(d)) => Cardinality(Live(d)) = 1

\* Caller t is inside Start, between its state change and its return.
InStart(t) == pc[t] \in {"register", "registered", "failed"}

\* C18: at most one caller of a driver is inside Start, and it holds the
\* lock; a Start goes in only on a stopped driver with the lock free, and
\* creates the next context; from the state change of a Start to its return
\* the driver stays started with that context uncancelled, no other caller of the
\* driver takes a step of a Start or Stop, and nobody else registers: a
\* concurrent Stop or Start takes effect before the state change or after
\* the return.
C18_LifecycleSerialized ==
    /\ [](\A d \in Drivers :
            /\ Cardinality({t \in Threads : Owner(t) = d /\ InStart(t)}) <= 1
            /\ \A t \in Threads :
                 (Owner(t) = d /\ InStart(t)) =>
                     /\ mutex[d] = t
                     /\ started[d]
                     /\ runtimeCtx[d] \notin cancelled[d])
    /\ [][\A t \in Threads :
            (~InStart(t) /\ InStart(t)') =>
               /\ mutex[Owner(t)] = None
               /\ ~started[Owner(t)]
               /\ runtimeCtx'[Owner(t)] = runtimeCtx[Owner(t)] + 1]_vars
    /\ [][\A t \in Threads :
            (InStart(t) /\ InStart(t)') =>
               \A u \in Threads \ {t} :
                  Owner(u) = Owner(t) =>
                     /\ ~StartStep(u)
                     /\ ~StopStep(Owner(t))
                     /\ UNCHANGED <<runtimeCtx, started, cancelled>>]_vars

\* A Stop made by another caller took effect before the state change of the
\* Start in progress: that Start has registered for the second cycle.
C18_Witness ==
    /\ pc["a"] = "registered"
    /\ mutex["d1"] = "a"
    /\ result["b"] = Returned("Stop", "nil")
    /\ runtimeCtx["d1"] = 2
    /\ cancelled["d1"] = {1}

\* C19 (as claimed): after Start, Stop, Start with no store operation failed
\* (a failure would be logged), from the return of the second Start until the
\* next Stop the lease key is in the store: the delete of the first cycle's
\* goroutine does not remove the lease the second Start registered.
C19_LaterLeaseSurvives ==
    \A d \in Drivers :
        (/\ Running(d)
         /\ runtimeCtx[d] = 2
         /\ cancelled[d] = {1}
         /\ logged[d] = {}) => Present(d)

====
